---- MODULE Spec2Model ----
(***************************************************************************)
(* Poster extraction pipeline: the two-stage orchestrator of pipeline.py   *)
(* with the entry point of main.py (specification Spec), and the Stage 2   *)
(* field normalizers with the schema validation they feed (NormSpec).      *)
(***************************************************************************)
EXTENDS Integers, Sequences, FiniteSets, TLC

VARIABLES
    image_files,    \* process_all_images: the entries kept by the extension filter
    pc,             \* position of the main thread
    idx,            \* 1-based index in image_files of the image being processed (0: none yet)
    results,        \* process_image: the `results` dict of the current image
    pooled_json_path, \* process_image: the Stage 1 path handed to the Stage 2 tasks
    par,            \* _run_parallel_extractions: its local `results` dict
    collected,      \* futures the as_completed loop has handled
    nsub,           \* number of tasks handed to executor.submit for the current image
    stage1,         \* per image: progress of PooledPopulationExtractor.extract
    task,           \* per image and Stage 2 task: progress of the extractor's extract()
    all_results,    \* process_all_images: the list it returns
    summary,        \* main: the counts it prints
    exit_code,      \* main: the process exit status
    fs,             \* JSON artifacts on disk: path -> content
    calls,          \* per extractor, for the current image: invocations of extract() and
                    \* the generate_content calls they made
    n_pc,           \* extract() of a Stage 2 extractor: position after the model's reply is parsed
    n_dom,          \* the Stage 2 extractor it belongs to
    n_parsed,       \* `parsed`: the object extract_first_json_object returned
    n_filtered,     \* `filtered`: what the normalizer returned
    n_validated,    \* outcome of model_validate(filtered)
    f_pc,           \* a utility function of utils.py: "ready" before the call, "done" after
    f_fn,           \* the function called
    f_in,           \* its argument
    f_out           \* what it returned or raised

orch_vars == <<image_files, pc, idx, results, pooled_json_path, par,
               collected, nsub, stage1, task, all_results, summary, exit_code, fs, calls>>

norm_vars == <<n_pc, n_dom, n_parsed, n_filtered, n_validated>>

fn_vars == <<f_pc, f_fn, f_in, f_out>>

vars == <<orch_vars, norm_vars, fn_vars>>

-----------------------------------------------------------------------------
(* Bounds and program constants *)

MaxFiles == 2
MaxRows == 2
MaxText == 4

INPUT_FOLDER == "images_input"
JSON_OUTPUT_FOLDER == "json_output"
MAX_WORKERS == 3

-----------------------------------------------------------------------------
(* Values *)

None == [kind |-> "None"]

File(stem, ext) == [stem |-> stem, ext |-> ext]

\* Entries the input directory may hold, in the order the file system lists them.
DirOrder == <<File("a", "jpg"), File("c", "txt"), File("a", "png"), File("b", "jpg")>>

\* The entries of DirOrder at the positions S, from position i on, in directory order.
RECURSIVE EntriesFrom(_, _)
EntriesFrom(i, S) ==
    IF i > Len(DirOrder) THEN <<>>
    ELSE (IF i \in S THEN <<DirOrder[i]>> ELSE <<>>) \o EntriesFrom(i + 1, S)

\* os.listdir(INPUT_FOLDER): any MaxFiles or fewer of the entries.
Listings ==
    {EntriesFrom(1, S) : S \in {T \in SUBSET DOMAIN DirOrder : Cardinality(T) <= MaxFiles}}

\* f.lower().endswith((".jpg", ".jpeg", ".png", ".webp"))
IsImageFile(f) == f.ext \in {"jpg", "jpeg", "png", "webp"}

\* Path(image_path).stem and Path(image_file).stem
PathStem(f) == f.stem

\* os.path.join(INPUT_FOLDER, image_file)
ImagePath(f) == [folder |-> INPUT_FOLDER, file |-> f]

\* The three Stage 2 tasks, in the order of the `tasks` list.
Tasks == <<"km_survival", "baseline", "response_outcomes">>
TaskNames == {Tasks[i] : i \in DOMAIN Tasks}

\* The four extractors process_image runs for an image.
Extractors == {"pooled_population"} \cup TaskNames

\* create_output_folders(image_id)["json_folder"]
JsonFolder(image_id) == [root |-> JSON_OUTPUT_FOLDER, dir |-> image_id]

\* Variant of OutputJsonPath: the three Stage 2 domains share one file name.
OutputJsonPathSharedName(image_id, domain) ==
    [root |-> JsonFolder(image_id).root, dir |-> JsonFolder(image_id).dir,
     file |-> <<image_id, IF domain = "pooled_population" THEN domain ELSE "stage2">>]

\* Path(json_folder) / f"{image_id}_{domain}.json"
OutputJsonPath(image_id, domain) ==
    [root |-> JsonFolder(image_id).root, dir |-> JsonFolder(image_id).dir,
     file |-> <<image_id, domain>>]

\* Variant of PooledJsonPath: the hard-coded folder differs from JSON_OUTPUT_FOLDER.
PooledJsonPathOtherFolder(image_id) ==
    [root |-> "json", dir |-> image_id, file |-> <<image_id, "pooled_population">>]

\* f"json_output/{image_id}/{image_id}_pooled_population.json"
PooledJsonPath(image_id) ==
    [root |-> "json_output", dir |-> image_id, file |-> <<image_id, "pooled_population">>]

\* What an extractor writes: the validated output of one domain for one source image.
Validated(domain, image_path, input2) ==
    [kind |-> "validated", domain |-> domain, image_path |-> image_path, input2 |-> input2]

-----------------------------------------------------------------------------
(* State after construction *)

\* A Stage 2 task nobody has submitted yet. `args` are the arguments given to
\* executor.submit, `input2` is the local input2_schema of extract(), `read_path` is
\* the path extract() gave to load_json.
NewTask == [pos |-> "pending", args |-> None, read_path |-> None, input2 |-> None]

\* The `results` dict process_image starts from.
NewResults(image_file) ==
    [image_id |-> PathStem(image_file), image_path |-> ImagePath(image_file),
     pooled_population |-> None, km_survival |-> None, baseline |-> None,
     response_outcomes |-> None]

Init ==
    /\ image_files = <<>>
    /\ pc = "start"
    /\ idx = 0
    /\ results = None
    /\ pooled_json_path = None
    /\ par = [t \in TaskNames |-> None]
    /\ collected = {}
    /\ nsub = 0
    /\ stage1 = <<>>
    /\ task = <<>>
    /\ all_results = <<>>
    /\ summary = None
    /\ exit_code = None
    /\ fs = [p \in {} |-> None]
    /\ calls = [e \in Extractors |-> [started |-> 0, upstream |-> 0]]
    /\ n_pc = "idle"
    /\ n_dom = None
    /\ n_parsed = None
    /\ n_filtered = None
    /\ n_validated = None
    /\ f_pc = "idle"
    /\ f_fn = None
    /\ f_in = None
    /\ f_out = None

-----------------------------------------------------------------------------
(* Helpers over the state *)

\* Path.write_text / save_json: the file at `path` now holds `content`.
WriteFile(files, path, content) ==
    [p \in DOMAIN files \cup {path} |-> IF p = path THEN content ELSE files[p]]

TerminalPos == {"returned", "raised"}
RunningPos == {"validated"}

\* The Stage 2 tasks of image i a worker thread is executing.
RunningTasks(i) == {t \in TaskNames : task[i][t].pos \in RunningPos}

\* Stage 1 of image i is executing.
Stage1Running(i) == stage1[i].state = "running"

\* The except branch of process_all_images: the fatal entry of the current image.
FatalEntry(err) ==
    [image_id |-> PathStem(image_files[idx]), image_path |-> ImagePath(image_files[idx]),
     error |-> err]

SetTask(i, t, rec) == [task EXCEPT ![i] = [@ EXCEPT ![t] = rec]]

\* extract() raised: its locals are gone, the future holds the exception.
Raised(rec) == [rec EXCEPT !.pos = "raised", !.input2 = None]

-----------------------------------------------------------------------------
(* process_all_images *)

\* Lines 105-116: list the input folder, keep the image files.
ListImages ==
    /\ pc = "start"
    /\ \E listing \in Listings : image_files' = SelectSeq(listing, IsImageFile)
    /\ pc' = IF image_files' = <<>> THEN "summary" ELSE "next"
    /\ UNCHANGED <<norm_vars, fn_vars, calls, idx, results, pooled_json_path, par, collected, nsub,
                   stage1, task, all_results, summary, exit_code, fs>>

\* Line 117 and process_image lines 28-42: take the next image, or leave the loop.
NextImage ==
    /\ pc = "next"
    /\ IF idx < Len(image_files)
       THEN /\ idx' = idx + 1
            /\ results' = NewResults(image_files[idx + 1])
            /\ pooled_json_path' = None
            /\ par' = [t \in TaskNames |-> None]
            /\ collected' = {}
            /\ nsub' = 0
            /\ stage1' = Append(stage1, [state |-> "running", wrote |-> None])
            /\ calls' = [e \in Extractors |->
                            [started |-> IF e = "pooled_population" THEN 1 ELSE 0,
                             upstream |-> 0]]
            /\ task' = Append(task, [t \in TaskNames |-> NewTask])
            /\ pc' = "s1_call"
       ELSE /\ pc' = "summary"
            /\ UNCHANGED <<idx, results, pooled_json_path, par, collected, nsub,
                           stage1, task, calls>>
    /\ UNCHANGED <<norm_vars, fn_vars, image_files, all_results, summary, exit_code, fs>>

\* Variant of UpstreamCalls: a failed upstream call is tried once more.
UpstreamCallsWithRetry(outcome) ==
    CASE outcome \in {"upstream", "reply"} -> 2
      [] outcome \in {"ok", "not_json", "schema"} -> 1
      [] OTHER -> 0

\* The generate_content calls one step of an extractor makes, by the outcome of the
\* step: one, unless the step raised before the call (image or Stage 1 artifact
\* not loaded) or comes after it (write, Excel export).
UpstreamCalls(outcome) ==
    IF outcome \in {"ok", "upstream", "not_json", "schema", "reply"} THEN 1 ELSE 0

\* Variant of Stage1Raise: the exception is swallowed inside process_image and
\* Stage 2 goes on.
Stage1RaiseSwallowed(err) ==
    /\ stage1' = [stage1 EXCEPT ![idx].state = "raised"]
    /\ UNCHANGED all_results
    /\ pc' = "submit"

\* Variant of Stage1Raise: the fatal entry is recorded and the loop over the image
\* files ends (break).
Stage1RaiseEndsLoop(err) ==
    /\ stage1' = [stage1 EXCEPT ![idx].state = "raised"]
    /\ all_results' = Append(all_results, FatalEntry(err))
    /\ pc' = "summary"

\* Lines 122-128: Stage 1 raised; record the fatal entry and go on with the loop.
Stage1Raise(err) ==
    /\ stage1' = [stage1 EXCEPT ![idx].state = "raised"]
    /\ all_results' = Append(all_results, FatalEntry(err))
    /\ pc' = "next"

-----------------------------------------------------------------------------
(* Stage 1: PooledPopulationExtractor.extract, run by the main thread *)

S1CallOutcomes == {"ok", "image", "upstream", "not_json", "schema"}

\* pooled_population.py lines 26-45: folders, image load, the upstream call,
\* safe_json_text and model_validate_json.
S1_Call(outcome) ==
    /\ pc = "s1_call"
    /\ IF outcome = "ok"
       THEN /\ pc' = "s1_write"
            /\ UNCHANGED <<stage1, all_results>>
       ELSE Stage1Raise(outcome)
    /\ calls' = [calls EXCEPT !["pooled_population"].upstream = @ + UpstreamCalls(outcome)]
    /\ UNCHANGED <<norm_vars, fn_vars, image_files, idx, results, pooled_json_path, par, collected,
                   nsub, task, summary, exit_code, fs>>

\* pooled_population.py lines 47-48: save_json of the validated output.
S1_WriteJson(ok) ==
    /\ pc = "s1_write"
    /\ IF ok
       THEN LET path == OutputJsonPath(results.image_id, "pooled_population")
            IN  /\ fs' = WriteFile(fs, path,
                             Validated("pooled_population", results.image_path, None))
                /\ stage1' = [stage1 EXCEPT ![idx].wrote = path]
                /\ pc' = "s1_excel"
                /\ UNCHANGED all_results
       ELSE /\ Stage1Raise("write")
            /\ UNCHANGED fs
    /\ UNCHANGED <<norm_vars, fn_vars, calls, image_files, idx, results, pooled_json_path, par, collected,
                   nsub, task, summary, exit_code>>

\* pooled_population.py lines 50-55 and pipeline.py lines 43-46: the Excel export,
\* the return, and process_image storing the result and building the Stage 1 path.
S1_Excel(ok) ==
    /\ pc = "s1_excel"
    /\ IF ok
       THEN /\ stage1' = [stage1 EXCEPT ![idx].state = "returned"]
            /\ results' = [results EXCEPT !.pooled_population =
                              Validated("pooled_population", results.image_path, None)]
            /\ pooled_json_path' = PooledJsonPath(results.image_id)
            /\ pc' = "submit"
            /\ UNCHANGED all_results
       ELSE /\ Stage1Raise("excel")
            /\ UNCHANGED <<results, pooled_json_path>>
    /\ UNCHANGED <<norm_vars, fn_vars, calls, image_files, idx, par, collected, nsub, task, summary,
                   exit_code, fs>>

-----------------------------------------------------------------------------
(* Stage 2: _run_parallel_extractions *)

\* Lines 80-84: executor.submit of the next task of the `tasks` list.
Submit ==
    /\ pc = "submit"
    /\ nsub < Len(Tasks)
    /\ LET t == Tasks[nsub + 1]
       IN  task' = SetTask(idx, t, [task[idx][t] EXCEPT
                       !.pos = "queued",
                       !.args = [image_path |-> results.image_path,
                                 image_id |-> results.image_id,
                                 pooled_json_path |-> pooled_json_path]])
    /\ nsub' = nsub + 1
    /\ pc' = IF nsub' = Len(Tasks) THEN "collect" ELSE "submit"
    /\ UNCHANGED <<norm_vars, fn_vars, calls, image_files, idx, results, pooled_json_path, par, collected,
                   stage1, all_results, summary, exit_code, fs>>

\* A worker thread takes the task; extract() lines 43-59 of the three extractors:
\* folders, load_json of the Stage 1 artifact, prompt, image load, the upstream
\* call, the sanitizer, the normalizer and the schema validation. load_json raises
\* when the file is missing, before any upstream call; "reply": the upstream call
\* raised or its reply was rejected.
T_CallOutcomes == {"ok", "reply"}

T_Call(i, t, outcome) ==
    /\ task[i][t].pos = "queued"
    /\ Cardinality(RunningTasks(i)) < MAX_WORKERS
    /\ LET path == task[i][t].args.pooled_json_path
           loaded == path \in DOMAIN fs
           rec == [task[i][t] EXCEPT !.read_path = path]
       IN  /\ IF outcome = "ok" /\ loaded
              THEN task' = SetTask(i, t, [rec EXCEPT !.pos = "validated", !.input2 = fs[path]])
              ELSE task' = SetTask(i, t, Raised(rec))
           /\ calls' = [calls EXCEPT
                  ![t].started = @ + 1,
                  ![t].upstream = @ + (IF loaded THEN UpstreamCalls(outcome) ELSE 0)]
    /\ UNCHANGED <<norm_vars, fn_vars, image_files, pc, idx, results, pooled_json_path, par,
                   collected, nsub, stage1, all_results, summary, exit_code, fs>>

T_SaveOutcomes == {"ok", "write", "excel"}

\* extract() lines 61-73: write <image_id>_<domain>.json, then the Excel export and
\* the return of the validated output. The write may raise (no file is left), and
\* the export after it may raise (the JSON file stays).
T_Save(i, t, outcome) ==
    /\ task[i][t].pos = "validated"
    /\ IF outcome = "write"
       THEN /\ task' = SetTask(i, t, Raised(task[i][t]))
            /\ UNCHANGED fs
       ELSE /\ fs' = WriteFile(fs, OutputJsonPath(task[i][t].args.image_id, t),
                         Validated(t, task[i][t].args.image_path, task[i][t].input2))
            /\ task' = SetTask(i, t, IF outcome = "ok"
                                     THEN [task[i][t] EXCEPT !.pos = "returned"]
                                     ELSE Raised(task[i][t]))
    /\ UNCHANGED <<norm_vars, fn_vars, calls, image_files, pc, idx, results, pooled_json_path, par, collected,
                   nsub, stage1, all_results, summary, exit_code>>

\* Variant of Collect: no try/except around future.result(), so a task's exception
\* leaves process_image and the image gets the fatal entry.
CollectReraise(t) ==
    /\ pc = "collect"
    /\ t \notin collected
    /\ task[idx][t].pos \in TerminalPos
    /\ IF task[idx][t].pos = "returned"
       THEN /\ par' = [par EXCEPT ![t] =
                         Validated(t, task[idx][t].args.image_path, task[idx][t].input2)]
            /\ collected' = collected \cup {t}
            /\ UNCHANGED <<pc, all_results>>
       ELSE /\ \A u \in TaskNames : task[idx][u].pos \in TerminalPos
            /\ all_results' = Append(all_results, FatalEntry("task"))
            /\ pc' = "next"
            /\ UNCHANGED <<par, collected>>
    /\ UNCHANGED <<norm_vars, fn_vars, calls, image_files, idx, results, pooled_json_path, nsub,
                   stage1, task, summary, exit_code, fs>>

\* Variant of Collect: the result goes into the slot of the completion position
\* (first finished, first slot) instead of the slot of future_to_task[future].
CollectByCompletionOrder(t) ==
    /\ pc = "collect"
    /\ t \notin collected
    /\ task[idx][t].pos \in TerminalPos
    /\ par' = [par EXCEPT ![Tasks[Cardinality(collected) + 1]] =
                  IF task[idx][t].pos = "returned"
                  THEN Validated(t, task[idx][t].args.image_path, task[idx][t].input2)
                  ELSE None]
    /\ collected' = collected \cup {t}
    /\ UNCHANGED <<norm_vars, fn_vars, calls, image_files, pc, idx, results, pooled_json_path, nsub,
                   stage1, task, all_results, summary, exit_code, fs>>

\* Lines 86-94: as_completed yields a finished future; its result, or None when
\* it raised, goes into the task's slot.
Collect(t) ==
    /\ pc = "collect"
    /\ t \notin collected
    /\ task[idx][t].pos \in TerminalPos
    /\ par' = [par EXCEPT ![t] =
                  IF task[idx][t].pos = "returned"
                  THEN Validated(t, task[idx][t].args.image_path, task[idx][t].input2)
                  ELSE None]
    /\ collected' = collected \cup {t}
    /\ UNCHANGED <<norm_vars, fn_vars, calls, image_files, pc, idx, results, pooled_json_path, nsub,
                   stage1, task, all_results, summary, exit_code, fs>>

\* Variant of JoinBarrier: return as soon as the first future was handled, without
\* waiting for the workers.
JoinBarrierFirstCompleted == collected /= {}

\* Variant of JoinBarrier: fire and forget.
JoinBarrierNoWait == TRUE

\* Lines 86 and 80: the as_completed loop ends once every future was yielded, and
\* the with block waits for the workers (shutdown(wait=True)).
JoinBarrier ==
    /\ collected = TaskNames
    /\ \A t \in TaskNames : task[idx][t].pos \in TerminalPos

\* Line 96, process_image lines 53-59 and process_all_images lines 120-121:
\* return the slots, merge them into `results`, append the image's entry.
FinishImage ==
    /\ pc = "collect"
    /\ JoinBarrier
    /\ results' = [results EXCEPT !.km_survival = par["km_survival"],
                                  !.baseline = par["baseline"],
                                  !.response_outcomes = par["response_outcomes"]]
    /\ all_results' = Append(all_results, results')
    /\ pc' = "next"
    /\ UNCHANGED <<norm_vars, fn_vars, calls, image_files, idx, pooled_json_path, par, collected, nsub,
                   stage1, task, summary, exit_code, fs>>

-----------------------------------------------------------------------------
(* main *)

\* Variant of Successful: an entry with a null domain slot is not counted.
SuccessfulAllDomains(rs) ==
    Cardinality({i \in DOMAIN rs : /\ "error" \notin DOMAIN rs[i]
                                   /\ \A t \in TaskNames : rs[i][t] /= None})

\* main.py line 35: successful = sum(1 for r in results if "error" not in r)
Successful(rs) == Cardinality({i \in DOMAIN rs : "error" \notin DOMAIN rs[i]})

\* main.py lines 26-49: the summary and the exit status.
Summary ==
    /\ pc = "summary"
    /\ LET successful == Successful(all_results)
           failed == Len(all_results) - successful
       IN  /\ summary' = [total |-> Len(all_results), successful |-> successful,
                          failed |-> failed]
           /\ exit_code' = [code |-> IF failed = 0 THEN 0 ELSE 1]
    /\ pc' = "done"
    /\ UNCHANGED <<norm_vars, fn_vars, calls, image_files, idx, results, pooled_json_path, par, collected,
                   nsub, stage1, task, all_results, fs>>

-----------------------------------------------------------------------------

Next ==
    \/ ListImages
    \/ NextImage
    \/ \E outcome \in S1CallOutcomes : S1_Call(outcome)
    \/ \E ok \in BOOLEAN : S1_WriteJson(ok)
    \/ \E ok \in BOOLEAN : S1_Excel(ok)
    \/ Submit
    \/ \E i \in DOMAIN task, t \in TaskNames, outcome \in T_CallOutcomes : T_Call(i, t, outcome)
    \/ \E i \in DOMAIN task, t \in TaskNames, outcome \in T_SaveOutcomes : T_Save(i, t, outcome)
    \/ \E t \in TaskNames : Collect(t)
    \/ FinishImage
    \/ Summary

Spec == Init /\ [][Next]_vars

\* The orchestrator under the scheduling the code relies on: the main thread takes
\* its next step, the pool's workers take the queued tasks, and every upstream call
\* and file operation returns or raises.
LiveSpec == Spec /\ WF_vars(Next)

-----------------------------------------------------------------------------
(* JSON values, as json.loads returns them.  A string is the sequence of its  *)
(* tokens: a token is one character (a digit, "-", ".", "%", a blank " ") or  *)
(* a word, a run of letters taken as a whole ("Overall", "patients").         *)

JNull == [t |-> "null"]
JInt(n) == [t |-> "int", v |-> n]
JStr(s) == [t |-> "str", v |-> s]
JList(l) == [t |-> "list", v |-> l]
JObj(f) == [t |-> "obj", v |-> f]

\* A float with the decimal expansion int.frac; frac has no trailing zero, and
\* zero is not negative (-0.0 == 0.0).
JFloat(neg, int, frac) == [t |-> "float", neg |-> neg, int |-> int, frac |-> frac]

\* The floats json.loads makes of NaN, Infinity and -Infinity.
JNonFinite(kind) == [t |-> "nonfinite", kind |-> kind]

EmptyDict == [k \in {} |-> JNull]

\* d.get(k)
Get(d, k) == IF k \in DOMAIN d THEN d[k] ELSE JNull

\* d[k] = v
Put(d, k, v) == [x \in DOMAIN d \cup {k} |-> IF x = k THEN v ELSE d[x]]

\* Variant of KeepKeys: no allow-list, every key of the reply is kept.
KeepAllKeys(r, allowed) == r

\* {k: r.get(k) for k in allowed if k in r}
KeepKeys(r, allowed) == [k \in allowed \cap DOMAIN r |-> r[k]]

\* Python truthiness of a JSON value, as used by `x or default`.
Truthy(x) ==
    CASE x.t = "null" -> FALSE
      [] x.t = "int" -> x.v /= 0
      [] x.t = "float" -> x.int /= 0 \/ x.frac /= <<>>
      [] x.t = "nonfinite" -> TRUE
      [] x.t = "str" -> x.v /= <<>>
      [] x.t = "list" -> x.v /= <<>>
      [] x.t = "obj" -> DOMAIN x.v /= {}

DigitVal ==
    [c \in {"0", "1", "2", "3", "4", "5", "6", "7", "8", "9"} |->
        CASE c = "0" -> 0 [] c = "1" -> 1 [] c = "2" -> 2 [] c = "3" -> 3 [] c = "4" -> 4
          [] c = "5" -> 5 [] c = "6" -> 6 [] c = "7" -> 7 [] c = "8" -> 8 [] c = "9" -> 9]

IsDigit(c) == c \in DOMAIN DigitVal

\* str.strip(): drop the blanks at both ends.
RECURSIVE LStrip(_)
LStrip(s) == IF s /= <<>> /\ Head(s) = " " THEN LStrip(Tail(s)) ELSE s

RECURSIVE RStrip(_)
RStrip(s) == IF s /= <<>> /\ s[Len(s)] = " " THEN RStrip(SubSeq(s, 1, Len(s) - 1)) ELSE s

Strip(s) == RStrip(LStrip(s))

\* s.replace("%", "")
RemovePercent(s) == SelectSeq(s, LAMBDA c : c /= "%")

\* The value of a run of digits, and the run without its trailing zeros.
RECURSIVE DigitsValue(_)
DigitsValue(ds) ==
    IF ds = <<>> THEN 0
    ELSE 10 * DigitsValue(SubSeq(ds, 1, Len(ds) - 1)) + DigitVal[ds[Len(ds)]]

RECURSIVE DropTrailingZeros(_)
DropTrailingZeros(ds) ==
    IF ds /= <<>> /\ ds[Len(ds)] = "0" THEN DropTrailingZeros(SubSeq(ds, 1, Len(ds) - 1))
    ELSE ds

\* The last position of the run of digits of s that starts at position i.
RECURSIVE DigitsEnd(_, _)
DigitsEnd(s, i) == IF i + 1 <= Len(s) /\ IsDigit(s[i + 1]) THEN DigitsEnd(s, i + 1) ELSE i

\* re.search(r"-?\d+", s): the positions where a match starts.
IntMatchStarts(s) ==
    {i \in DOMAIN s : \/ IsDigit(s[i])
                      \/ s[i] = "-" /\ i + 1 <= Len(s) /\ IsDigit(s[i + 1])}

Min(S) == CHOOSE x \in S : \A y \in S : x <= y

\* float(text) of the decimal text with the given sign, digits and fraction digits.
MakeFloat(neg, int, frac) ==
    LET f == DropTrailingZeros(frac)
    IN  JFloat(neg /\ (int /= 0 \/ f /= <<>>), int, f)

\* utils.py lines 143-160
to_int_or_none(x) ==
    CASE x.t = "null" -> JNull
      [] x.t = "int" -> x
      [] x.t = "float" -> JInt(IF x.neg THEN 0 - x.int ELSE x.int)
      [] x.t = "nonfinite" ->   \* int(x) of a float that is no number
            [t |-> "raise", type |-> IF x.kind = "nan" THEN "ValueError" ELSE "OverflowError"]
      [] x.t = "str" ->
            LET s == Strip(x.v)
                starts == IntMatchStarts(s)
            IN  IF starts = {} THEN JNull
                ELSE LET i == Min(starts)
                         neg == s[i] = "-"
                         d == IF neg THEN i + 1 ELSE i
                         n == DigitsValue(SubSeq(s, d, DigitsEnd(s, d)))
                     IN  JInt(IF neg THEN 0 - n ELSE n)
      [] OTHER -> JNull

\* utils.py lines 163-179
to_float_or_none(x) ==
    CASE x.t = "null" -> JNull
      [] x.t = "int" -> MakeFloat(x.v < 0, IF x.v < 0 THEN 0 - x.v ELSE x.v, <<>>)
      [] x.t \in {"float", "nonfinite"} -> x
      [] x.t = "str" ->
            LET s == Strip(RemovePercent(Strip(x.v)))
                starts == IntMatchStarts(s)
            IN  IF starts = {} THEN JNull
                ELSE LET i == Min(starts)
                         neg == s[i] = "-"
                         d == IF neg THEN i + 1 ELSE i
                         e == DigitsEnd(s, d)
                         hasFrac == /\ e + 2 <= Len(s)
                                    /\ s[e + 1] = "."
                                    /\ IsDigit(s[e + 2])
                         frac == IF hasFrac THEN SubSeq(s, e + 2, DigitsEnd(s, e + 2))
                                 ELSE <<>>
                     IN  MakeFloat(neg, DigitsValue(SubSeq(s, d, e)), frac)
      [] OTHER -> JNull

-----------------------------------------------------------------------------
(* The sanitizers of the model's reply (utils.py).  A text is a sequence of   *)
(* tokens: "{", "}", a blank, "FENCE" for a Markdown code fence, "json", "kv" *)
(* for one well-formed member ("k": 1) and "x" for anything else.             *)

\* json.loads of a text: the object, or JSONDecodeError. An object is "{", at most
\* one member and "}", with blanks anywhere between them.
json_loads(text) ==
    LET inner == SelectSeq(SubSeq(text, 2, Len(text) - 1), LAMBDA c : c /= " ")
    IN  IF /\ Len(text) >= 2
           /\ text[1] = "{"
           /\ text[Len(text)] = "}"
           /\ inner \in {<<>>, <<"kv">>}
        THEN JObj(IF inner = <<>> THEN EmptyDict ELSE Put(EmptyDict, "k", JInt(1)))
        ELSE [t |-> "raise", type |-> "JSONDecodeError"]

\* Variant of extract_first_json_object: no search for a {...} span inside the text.
extract_first_json_object_no_search(text) ==
    LET t0 == IF text.t = "null" THEN <<>> ELSE Strip(text.v)
    IN  IF t0 = <<>> THEN [t |-> "raise", type |-> "ValueError", msg |-> "Empty model output text."]
        ELSE IF t0[1] = "{" /\ t0[Len(t0)] = "}" THEN json_loads(t0)
        ELSE [t |-> "raise", type |-> "ValueError",
              msg |-> "No JSON object found in model output."]

\* utils.py lines 116-117: re.sub(r"^```(?:json)?\s*", "", text), then
\* re.sub(r"\s*```$", "", text), on the stripped text.
remove_fences(t0) ==
    LET t1 == IF t0 /= <<>> /\ t0[1] = "FENCE"
              THEN LStrip(IF Len(t0) >= 2 /\ t0[2] = "json"
                          THEN SubSeq(t0, 3, Len(t0)) ELSE Tail(t0))
              ELSE t0
    IN  IF t1 /= <<>> /\ t1[Len(t1)] = "FENCE"
        THEN RStrip(SubSeq(t1, 1, Len(t1) - 1))
        ELSE t1

\* Variant of re_search_braces: the non-greedy pattern \{.*?\}, which stops at the
\* first closing brace.
re_search_braces_non_greedy(t2) ==
    LET opens == {i \in DOMAIN t2 : t2[i] = "{" /\ \E j \in DOMAIN t2 : j > i /\ t2[j] = "}"}
        from == Min(opens)
        to == Min({j \in DOMAIN t2 : j > from /\ t2[j] = "}"})
    IN  IF opens = {} THEN None ELSE [group0 |-> SubSeq(t2, from, to)]

\* utils.py line 124: re.search(r"\{.*\}", text, flags=re.DOTALL): the leftmost "{"
\* that a "}" follows, then greedily to the last "}"; None when there is no match.
re_search_braces(t2) ==
    LET opens == {i \in DOMAIN t2 : t2[i] = "{" /\ \E j \in DOMAIN t2 : j > i /\ t2[j] = "}"}
        from == Min(opens)
        to == CHOOSE j \in DOMAIN t2 :
                 t2[j] = "}" /\ \A k \in DOMAIN t2 : t2[k] = "}" => k <= j
    IN  IF opens = {} THEN None ELSE [group0 |-> SubSeq(t2, from, to)]

\* utils.py lines 110-128
extract_first_json_object(text) ==
    LET t0 == IF text.t = "null" THEN <<>> ELSE Strip(text.v)
        t2 == remove_fences(t0)
        match == re_search_braces(t2)
    IN  IF t0 = <<>> THEN [t |-> "raise", type |-> "ValueError", msg |-> "Empty model output text."]
        ELSE IF t2 /= <<>> /\ t2[1] = "{" /\ t2[Len(t2)] = "}" THEN json_loads(t2)
        ELSE IF match = None
        THEN [t |-> "raise", type |-> "ValueError",
              msg |-> "No JSON object found in model output."]
        ELSE json_loads(match.group0)

\* utils.py lines 100-107
safe_json_text(model_text) ==
    LET txt == IF model_text.t = "null" THEN <<>> ELSE Strip(model_text.v)
    IN  IF ~(txt /= <<>> /\ txt[1] = "{" /\ txt[Len(txt)] = "}")
        THEN [t |-> "raise", type |-> "RuntimeError",
              msg |-> "Model output not valid JSON / truncated"]
        ELSE JStr(txt)

-----------------------------------------------------------------------------
(* Schemas (schemas.py) *)

Word(w) == JStr(<<w>>)
AnalysisSet == JStr(<<"Analysis", " ", "set">>)
BaselineCharacteristicType == JStr(<<"Baseline", " ", "characteristic">>)

\* schemas.py lines 19-26
PopulationType ==
    {Word("Overall"), AnalysisSet, Word("Cohort"), BaselineCharacteristicType,
     Word("Subgroup"), Word("Other")}

\* schemas.py line 115
TimeUnit == {Word("months"), Word("years"), Word("weeks"), Word("days")}

\* schemas.py line 190
BaselineParent == {Word("Overall"), Word("Cohort"), Word("Subgroup"), Word("Other"), JNull}

\* schemas.py line 256
ResponseMetricClass == {Word("rate"), Word("duration"), Word("time_to_response")}

\* A field of a schema class: its type, whether it is required, the closed set of a
\* Literal, and the field_validator that runs on it.
Field(ty, req, lits, chk) == [ty |-> ty, req |-> req, lits |-> lits, chk |-> chk]
OptStr == Field("str", FALSE, {}, "none")
OptInt(chk) == Field("int", FALSE, {}, chk)
OptFloat(chk) == Field("float", FALSE, {}, chk)
ReqInt(chk) == Field("int", TRUE, {}, chk)
ReqLit(lits) == Field("lit", TRUE, lits, "none")
OptLit(lits) == Field("lit", FALSE, lits \cup {JNull}, "none")

\* schemas.py lines 118-122
TrialMetadataSchema ==
    [k \in {"trial_id", "phase", "study_name"} |-> OptStr]

\* schemas.py lines 125-177
ArmLevelSurvivalOutcomeSchema ==
    [k \in {"survival_outcome_id", "trial_id", "trial_label", "arm_description",
            "population_type", "population_description", "endpoint_description",
            "endpoint_name", "endpoint_label", "assessment_type", "review_board",
            "review_criteria", "other_details", "arm_n", "median_survival",
            "survival_rate", "events_n", "assessment_denominator_n", "p_value",
            "time_unit"} |->
        CASE k = "survival_outcome_id" -> ReqInt("positive")
          [] k = "population_type" -> ReqLit(PopulationType)
          [] k \in {"arm_n", "events_n", "assessment_denominator_n"} -> OptInt("non_negative")
          [] k = "p_value" -> OptFloat("zero_to_one")
          [] k = "time_unit" -> OptLit(TimeUnit)
          [] OTHER -> OptStr]

\* schemas.py lines 193-244
BaselineCharacteristicSchema ==
    [k \in {"baseline_id", "trial_id", "trial_label", "arm_key", "arm_description",
            "population_key", "population_type", "population_description",
            "baseline_parent", "parent_description", "baseline_category_label",
            "group_label", "group_text", "measure", "measure_value", "population_n",
            "population_percentage"} |->
        CASE k = "baseline_id" -> ReqInt("positive")
          [] k = "population_type" -> ReqLit(PopulationType)
          [] k = "baseline_parent" -> OptLit(BaselineParent)
          [] k = "population_n" -> OptInt("non_negative")
          [] k = "population_percentage" -> OptFloat("zero_to_hundred")
          [] OTHER -> OptStr]

\* schemas.py lines 259-273
ResultObjectSchema ==
    [k \in {"n", "percentage", "min", "max", "p_value", "odds_ratio", "median",
            "min_duration", "max_duration", "duration_unit"} |->
        CASE k = "n" -> OptInt("none")
          [] k = "duration_unit" -> OptLit(TimeUnit)
          [] OTHER -> OptFloat("none")]

\* schemas.py lines 276-316
ArmLevelResponseOutcomeSchema ==
    [k \in {"response_outcome_id", "trial_id", "trial_label", "arm_description",
            "population_type", "population_description", "assessment_type",
            "review_board", "review_criteria", "other_details", "arm_n",
            "assessment_denominator_n", "response_type_name", "response_metric_class",
            "result"} |->
        CASE k = "response_outcome_id" -> ReqInt("positive")
          [] k = "population_type" -> ReqLit(PopulationType)
          [] k \in {"arm_n", "assessment_denominator_n"} -> OptInt("non_negative")
          [] k = "response_metric_class" -> OptLit(ResponseMetricClass)
          [] k = "result" -> Field("model", FALSE, {}, "ResultObject")
          [] OTHER -> OptStr]

-----------------------------------------------------------------------------
(* Validation: BaseModel.model_validate in pydantic's lax mode *)

\* The text is an optional "-" and digits, nothing else.
IsIntText(s) ==
    /\ s /= <<>>
    /\ LET d == IF s[1] = "-" THEN Tail(s) ELSE s
       IN  d /= <<>> /\ \A i \in DOMAIN d : IsDigit(d[i])

\* The outcome of validating one value: the kinds of error found and, when there is
\* none, the value the model holds.
Valid(v) == [errs |-> {}, val |-> v]
Invalid(kind) == [errs |-> {kind}, val |-> JNull]

\* The field_validator functions: v <= 0, v < 0, v < 0 or v > 1, v < 0 or v > 100.
PassesCheck(chk, v) ==
    CASE chk = "positive" -> v.v > 0
      [] chk = "non_negative" -> v.v >= 0
      [] chk = "zero_to_one" ->
            ~v.neg /\ (v.int = 0 \/ (v.int = 1 /\ v.frac = <<>>))
      [] chk = "zero_to_hundred" ->
            ~v.neg /\ (v.int < 100 \/ (v.int = 100 /\ v.frac = <<>>))
      [] OTHER -> TRUE

Checked(chk, v) == IF PassesCheck(chk, v) THEN Valid(v) ELSE Invalid("value_error")

\* A value given for a field that is not a nested model.
ValidateScalar(f, v) ==
    CASE f.ty = "lit" -> IF v \in f.lits THEN Valid(v) ELSE Invalid("literal_error")
      [] v.t = "null" ->
            IF f.req THEN Invalid(f.ty \o "_type") ELSE Valid(JNull)
      [] f.ty = "str" -> IF v.t = "str" THEN Valid(v) ELSE Invalid("string_type")
      [] f.ty = "int" ->
            CASE v.t = "int" -> Checked(f.chk, v)
              [] v.t = "float" ->
                    IF v.frac = <<>>
                    THEN Checked(f.chk, JInt(IF v.neg THEN 0 - v.int ELSE v.int))
                    ELSE Invalid("int_from_float")
              [] v.t = "str" ->
                    IF IsIntText(v.v) THEN Checked(f.chk, to_int_or_none(v))
                    ELSE Invalid("int_parsing")
              [] OTHER -> Invalid("int_type")
      [] f.ty = "float" ->
            CASE v.t \in {"int", "float"} -> Checked(f.chk, to_float_or_none(v))
              [] v.t = "str" ->
                    IF IsIntText(v.v) THEN Checked(f.chk, to_float_or_none(v))
                    ELSE Invalid("float_parsing")
              [] OTHER -> Invalid("float_type")

\* The errors of a mapping against a schema without nested models: a missing
\* required field, a key the class does not declare (extra="forbid"), and the
\* errors of the values given.
FlatErrors(schema, d) ==
    {<<k, "missing">> : k \in {x \in DOMAIN schema : schema[x].req} \ DOMAIN d}
    \cup {<<k, "extra_forbidden">> : k \in DOMAIN d \ DOMAIN schema}
    \cup UNION {{<<k, e>> : e \in ValidateScalar(schema[k], d[k]).errs} :
                   k \in {x \in DOMAIN d \cap DOMAIN schema : schema[x].ty /= "model"}}

\* The model built from a mapping that has no error: every declared field, with its
\* default None when the mapping does not give it.
FlatValue(schema, d) ==
    [k \in {x \in DOMAIN schema : schema[x].ty /= "model"} |->
        IF k \in DOMAIN d THEN ValidateScalar(schema[k], d[k]).val ELSE JNull]

\* Optional[ResultObject]: None, or a mapping validated against ResultObject.
ResultErrors(v) ==
    CASE v.t = "null" -> {}
      [] v.t = "obj" -> {<<"result", e>> : e \in FlatErrors(ResultObjectSchema, v.v)}
      [] OTHER -> {<<"result", "model_type">>}

ResultValue(v) ==
    IF v.t = "obj" THEN JObj(FlatValue(ResultObjectSchema, v.v)) ELSE JNull

\* One row of a list field.
RowErrors(schema, row) ==
    IF row.t /= "obj" THEN {<<"", "model_type">>}
    ELSE FlatErrors(schema, row.v)
         \cup (IF "result" \in DOMAIN schema /\ "result" \in DOMAIN row.v
               THEN ResultErrors(row.v["result"]) ELSE {})

RowValue(schema, row) ==
    IF "result" \in DOMAIN schema
    THEN Put(FlatValue(schema, row.v), "result", ResultValue(Get(row.v, "result")))
    ELSE FlatValue(schema, row.v)

\* The schema class of the rows of each Stage 2 domain, and the list that holds them
\* with its sequential id field.
RowSchema(dom) ==
    CASE dom = "baseline" -> BaselineCharacteristicSchema
      [] dom = "km_survival" -> ArmLevelSurvivalOutcomeSchema
      [] dom = "response_outcomes" -> ArmLevelResponseOutcomeSchema

RowsKey(dom) ==
    CASE dom = "baseline" -> "bc_types"
      [] dom = "km_survival" -> "arm_level_survival_outcomes"
      [] dom = "response_outcomes" -> "arm_level_response_outcomes"

IdKey(dom) ==
    CASE dom = "baseline" -> "baseline_id"
      [] dom = "km_survival" -> "survival_outcome_id"
      [] dom = "response_outcomes" -> "response_outcome_id"

HasTrialMetadata(dom) == dom /= "baseline"

TopKeys(dom) == {RowsKey(dom)} \cup (IF HasTrialMetadata(dom) THEN {"trial_metadata"} ELSE {})

\* BaselineOutput / SurvivalOutput / ResponseOutput .model_validate(filtered): every
\* error, each with the place it is at (0: the output itself or its trial_metadata,
\* i: row i of the list).
ValidationErrors(dom, filtered) ==
    LET rows == Get(filtered, RowsKey(dom))
        tm == Get(filtered, "trial_metadata")
    IN  {<<0, k, "extra_forbidden">> : k \in DOMAIN filtered \ TopKeys(dom)}
        \cup (IF rows.t = "list"
              THEN UNION {{<<i, e[1], e[2]>> : e \in RowErrors(RowSchema(dom), rows.v[i])} :
                             i \in DOMAIN rows.v}
              ELSE IF RowsKey(dom) \in DOMAIN filtered
              THEN {<<0, RowsKey(dom), "list_type">>} ELSE {})
        \cup (IF HasTrialMetadata(dom) /\ "trial_metadata" \in DOMAIN filtered
              THEN IF tm.t = "obj"
                   THEN {<<0, e[1], e[2]>> : e \in FlatErrors(TrialMetadataSchema, tm.v)}
                   ELSE {<<0, "trial_metadata", "model_type">>}
              ELSE {})

\* The validated model, for a `filtered` without error.
ValidatedValue(dom, filtered) ==
    LET rows == Get(filtered, RowsKey(dom))
        outRows == IF rows.t = "list"
                   THEN [i \in DOMAIN rows.v |-> RowValue(RowSchema(dom), rows.v[i])]
                   ELSE <<>>
        tm == Get(filtered, "trial_metadata")
        outTm == FlatValue(TrialMetadataSchema, IF tm.t = "obj" THEN tm.v ELSE EmptyDict)
    IN  IF HasTrialMetadata(dom)
        THEN [rows |-> outRows, trial_metadata |-> outTm]
        ELSE [rows |-> outRows]

\* validated.model_dump_json(indent=2): every declared field of every model, a
\* field left at its default None as null.
model_dump_json(dom, value) ==
    LET rows == JList([i \in DOMAIN value.rows |-> JObj(value.rows[i])])
    IN  IF HasTrialMetadata(dom)
        THEN [k \in TopKeys(dom) |->
                 IF k = "trial_metadata" THEN JObj(value.trial_metadata) ELSE rows]
        ELSE [k \in TopKeys(dom) |-> rows]

\* model_validate: the model, or the ValidationError with all its errors.
model_validate(dom, filtered) ==
    LET errs == ValidationErrors(dom, filtered)
    IN  IF errs = {} THEN [ok |-> TRUE, errors |-> {}, value |-> ValidatedValue(dom, filtered)]
        ELSE [ok |-> FALSE, errors |-> errs]

-----------------------------------------------------------------------------
(* The Stage 2 normalizers *)

\* baseline.py lines 77-83
ALLOWED_BC_KEYS == DOMAIN BaselineCharacteristicSchema

\* km_survival.py line 76, response_outcomes.py line 75
ALLOWED_TM_KEYS == {"trial_id", "phase", "study_name"}

\* km_survival.py lines 77-84
ALLOWED_SURVIVAL_KEYS ==
    {"survival_outcome_id", "trial_id", "trial_label", "arm_description",
     "population_type", "population_description", "endpoint_description",
     "endpoint_name", "endpoint_label", "assessment_type", "review_board",
     "review_criteria", "other_details", "arm_n", "median_survival",
     "survival_rate", "events_n", "assessment_denominator_n", "p_value", "time_unit"}

\* response_outcomes.py lines 76-82
ALLOWED_RESPONSE_KEYS ==
    {"response_outcome_id", "trial_id", "trial_label", "arm_description",
     "population_type", "population_description", "assessment_type",
     "review_board", "review_criteria", "other_details", "arm_n",
     "assessment_denominator_n", "response_type_name", "response_metric_class",
     "result"}

\* baseline.py line 115
BaselineAllowedPopulationTypes ==
    {Word("Overall"), AnalysisSet, Word("Cohort"), Word("Subgroup"), Word("Other")}

\* baseline.py line 122
BaselineAllowedParents == {Word("Overall"), Word("Cohort"), Word("Subgroup"), Word("Other")}

\* baseline.py lines 113-118
_normalize_population_type(v) ==
    IF v.t = "str" /\ JStr(Strip(v.v)) \in BaselineAllowedPopulationTypes
    THEN JStr(Strip(v.v))
    ELSE Word("Other")

\* baseline.py lines 120-127
_normalize_baseline_parent(v) ==
    IF v.t = "null" THEN JNull
    ELSE IF v.t = "str" /\ JStr(Strip(v.v)) \in BaselineAllowedParents
    THEN JStr(Strip(v.v))
    ELSE JNull

\* The elements of a list that are mappings, in order (the isinstance(r, dict) test).
\* Variant of DictRows: the first element that is no mapping ends the loop (break
\* in place of continue).
DictRowsBreak(rows) ==
    LET junk == {i \in DOMAIN rows : rows[i].t /= "obj"}
    IN  IF junk = {} THEN rows ELSE SubSeq(rows, 1, Min(junk) - 1)

\* for r in rows: if not isinstance(r, dict): continue
DictRows(rows) == SelectSeq(rows, LAMBDA r : r.t = "obj")

\* {k: tm_raw.get(k) for k in ALLOWED_TM_KEYS if k in tm_raw}: `in` is the key test
\* of a mapping, the substring test of a string, the membership test of a list and
\* a TypeError for a number; .get exists for a mapping only.
CleanTrialMetadata(tm_raw) ==
    CASE tm_raw.t = "obj" -> KeepKeys(tm_raw.v, ALLOWED_TM_KEYS)
      [] tm_raw.t = "str" ->
            IF \E i \in DOMAIN tm_raw.v : tm_raw.v[i] \in ALLOWED_TM_KEYS
            THEN [t |-> "raise", type |-> "AttributeError"] ELSE EmptyDict
      [] tm_raw.t = "list" ->
            IF \E i \in DOMAIN tm_raw.v : \E k \in ALLOWED_TM_KEYS : tm_raw.v[i] = JStr(<<k>>)
            THEN [t |-> "raise", type |-> "AttributeError"] ELSE EmptyDict
      [] OTHER -> [t |-> "raise", type |-> "TypeError"]

\* baseline.py lines 93-101: one cleaned row.
CleanBcRow(r) ==
    LET rr0 == KeepKeys(r, ALLOWED_BC_KEYS)
        rr1 == Put(rr0, "population_type",
                   _normalize_population_type(Get(rr0, "population_type")))
        rr2 == Put(rr1, "baseline_parent",
                   _normalize_baseline_parent(Get(rr1, "baseline_parent")))
        rr3 == Put(rr2, "population_n", to_int_or_none(Get(rr2, "population_n")))
    IN  Put(rr3, "population_percentage",
            to_float_or_none(Get(rr3, "population_percentage")))

\* baseline.py lines 105-109: fill baseline_id where it is no positive int.
FillBaselineId(rr, i) ==
    LET bid == Get(rr, "baseline_id")
    IN  IF bid.t /= "int" \/ bid.v <= 0 THEN Put(rr, "baseline_id", JInt(i)) ELSE rr

\* baseline.py lines 75-111
_clean_to_bc_only(parsed) ==
    LET bc_raw == IF "bc_types" \in DOMAIN parsed THEN parsed["bc_types"] ELSE JList(<<>>)
        rows == IF bc_raw.t = "list" THEN bc_raw.v ELSE <<>>
        dicts == DictRows(rows)
        cleaned_rows == [i \in DOMAIN dicts |-> CleanBcRow(dicts[i].v)]
        \* to_int_or_none raised inside the loop: the exception leaves the normalizer
        raising == {i \in DOMAIN cleaned_rows : Get(cleaned_rows[i], "population_n").t = "raise"}
    IN  IF raising /= {} THEN Get(cleaned_rows[Min(raising)], "population_n")
        ELSE [k \in {"bc_types"} |->
                JList([i \in DOMAIN cleaned_rows |-> JObj(FillBaselineId(cleaned_rows[i], i))])]

\* parsed.get(key, default) or default
GetOr(parsed, key, default) ==
    LET x == IF key \in DOMAIN parsed THEN parsed[key] ELSE default
    IN  IF Truthy(x) THEN x ELSE default

\* km_survival.py lines 88-97 and response_outcomes.py lines 86-98: the two
\* normalizers differ in the names of the list and of the allow-list only.
CleanOutcomes(parsed, rowsKey, allowed) ==
    LET tm_raw == GetOr(parsed, "trial_metadata", JObj(EmptyDict))
        rows_raw == GetOr(parsed, rowsKey, JList(<<>>))
        tm == CleanTrialMetadata(tm_raw)
        rows == IF rows_raw.t = "list" THEN rows_raw.v ELSE <<>>
        dicts == DictRows(rows)
    IN  IF "t" \in DOMAIN tm THEN tm
        ELSE [k \in {"trial_metadata", rowsKey} |->
                IF k = "trial_metadata" THEN JObj(tm)
                ELSE JList([i \in DOMAIN dicts |-> JObj(KeepKeys(dicts[i].v, allowed))])]

\* km_survival.py lines 74-97
_clean_to_survival_only(parsed) ==
    CleanOutcomes(parsed, "arm_level_survival_outcomes", ALLOWED_SURVIVAL_KEYS)

\* response_outcomes.py lines 73-98
_clean_to_response_only(parsed) ==
    CleanOutcomes(parsed, "arm_level_response_outcomes", ALLOWED_RESPONSE_KEYS)

\* Variant of ParsedAfterClean: the baseline loop normalizes the rows in place
\* (rr = r), so the caller's object holds the cleaned rows after the call.
ParsedAfterCleanInPlace(dom, parsed) ==
    LET bc_raw == Get(parsed, "bc_types")
    IN  IF dom = "baseline" /\ bc_raw.t = "list"
        THEN Put(parsed, "bc_types",
                 JList([i \in DOMAIN bc_raw.v |->
                           IF bc_raw.v[i].t = "obj" THEN JObj(CleanBcRow(bc_raw.v[i].v))
                           ELSE bc_raw.v[i]]))
        ELSE parsed

\* The caller's `parsed` after the normalizer ran: the normalizers read it with
\* .get and build new dicts (rr, tm, cleaned_rows); nothing is assigned into it.
ParsedAfterClean(dom, parsed) == parsed

\* The normalizer extract() of each Stage 2 extractor applies to the parsed object.
Normalize(dom, parsed) ==
    CASE dom = "baseline" -> _clean_to_bc_only(parsed)
      [] dom = "km_survival" -> _clean_to_survival_only(parsed)
      [] dom = "response_outcomes" -> _clean_to_response_only(parsed)

-----------------------------------------------------------------------------
(* Properties of the orchestrator (specification Spec) *)

Images == DOMAIN stage1

Stage1Failed(i) == stage1[i].state = "raised"
Stage1Succeeded(i) == stage1[i].state = "returned"

\* The validated Stage 1 output of image i, as written to its artifact.
PooledOf(i) == Validated("pooled_population", ImagePath(image_files[i]), None)

FatalKeys == {"image_id", "image_path", "error"}

\* C1: for every image whose Stage 1 extraction raised, at whatever step, none of
\* the three Stage 2 tasks is ever submitted, and the image's entry in the run
\* result is {image_id, image_path, error}, with no domain key.
C1_Stage1FailureIsFatal ==
    \A i \in Images :
        Stage1Failed(i) =>
            /\ \A t \in TaskNames : task[i][t].pos = "pending"
            /\ i \in DOMAIN all_results
            /\ DOMAIN all_results[i] = FatalKeys
            /\ all_results[i].image_id = PathStem(image_files[i])
            /\ all_results[i].image_path = ImagePath(image_files[i])
            /\ all_results[i].error \in
                   {"image", "upstream", "not_json", "schema", "write", "excel"}

\* Two images failed Stage 1, one at the upstream call and one at the file write.
C1_Witness ==
    /\ pc = "done"
    /\ Len(all_results) = 2
    /\ Stage1Failed(1) /\ all_results[1].error = "upstream"
    /\ Stage1Failed(2) /\ all_results[2].error = "write"

\* C2: for every image whose Stage 1 succeeded and whose entry is in the run
\* result, whatever subset of the Stage 2 tasks raised: a task that raised has a
\* null slot, a task that returned has its validated output in its slot, the entry
\* is a domain-result map (it has no error key), and the summary counts the image
\* as successful.
C2_Stage2FailureIsIsolated ==
    /\ \A i \in DOMAIN all_results :
           Stage1Succeeded(i) =>
               /\ "error" \notin DOMAIN all_results[i]
               /\ TaskNames \subseteq DOMAIN all_results[i]
               /\ \A t \in TaskNames :
                      /\ task[i][t].pos = "raised" => all_results[i][t] = None
                      /\ task[i][t].pos = "returned" =>
                             all_results[i][t] =
                                 Validated(t, ImagePath(image_files[i]), PooledOf(i))
    /\ pc = "done" =>
           summary.successful = Cardinality({i \in Images : Stage1Succeeded(i)})

\* The scenario of the spec: baseline raised, KM and response returned, and the
\* image is not among the failed ones.
C2_Witness ==
    /\ pc = "done"
    /\ Len(all_results) >= 1
    /\ Stage1Succeeded(1)
    /\ task[1]["baseline"].pos = "raised"
    /\ all_results[1].baseline = None
    /\ all_results[1].km_survival /= None
    /\ all_results[1].response_outcomes /= None
    /\ summary.failed = 0

\* C3: an image's entry is in the run result only when none of its Stage 2 tasks is
\* queued or running; the entry of an image that reached Stage 2 is there only
\* after all three tasks returned or raised.
C3_JoinBarrier ==
    \A i \in DOMAIN all_results :
        \A t \in TaskNames :
            /\ task[i][t].pos \in TerminalPos \cup {"pending"}
            /\ "error" \notin DOMAIN all_results[i] => task[i][t].pos \in TerminalPos

\* An image was finalized after its three tasks ended with different outcomes, and
\* the main thread is waiting at the barrier of the next image while a task runs.
C3_Witness ==
    /\ Len(all_results) = 1
    /\ "error" \notin DOMAIN all_results[1]
    /\ {task[1][t].pos : t \in TaskNames} = TerminalPos
    /\ pc = "collect"
    /\ idx = 2
    /\ collected /= {}
    /\ \E t \in TaskNames : task[2][t].pos \in RunningPos

\* C4: a Stage 2 task of an image is submitted only after Stage 1 wrote the image's
\* pooled-population artifact, and the path the task is given and reads, and the
\* content it reads, are the path and content Stage 1 wrote for that image.
C4_Stage1WriteBeforeStage2 ==
    \A i \in DOMAIN task :
        \A t \in TaskNames :
            task[i][t].pos /= "pending" =>
                /\ stage1[i].wrote /= None
                /\ stage1[i].wrote \in DOMAIN fs
                /\ task[i][t].args.pooled_json_path = stage1[i].wrote
                /\ task[i][t].read_path /= None => task[i][t].read_path = stage1[i].wrote
                /\ task[i][t].input2 /= None => task[i][t].input2 = PooledOf(i)

\* A task of the second image has read the artifact Stage 1 wrote for that image.
C4_Witness ==
    /\ idx = 2
    /\ \E t \in TaskNames :
           /\ task[2][t].pos = "validated"
           /\ task[2][t].read_path = OutputJsonPath(PathStem(image_files[2]), "pooled_population")
           /\ task[2][t].input2 = fs[task[2][t].read_path]

\* The extractions that are executing: Stage 1 of an image, or a Stage 2 task a
\* worker thread is running.
ExecutingStage1 == {i \in Images : Stage1Running(i)}
ExecutingStage2 == {<<i, t>> \in Images \X TaskNames : task[i][t].pos \in RunningPos}

\* C5: at most 3 extractions execute at a time; the Stage 2 tasks that are queued or
\* executing all belong to the image being processed; while a Stage 1 extraction
\* runs nothing else runs; and an image is started only when every earlier image
\* has its entry in the run result.
C5_BoundedSequentialScheduling ==
    /\ Cardinality(ExecutingStage1) + Cardinality(ExecutingStage2) <= 3
    /\ \A i \in Images : \A t \in TaskNames :
           task[i][t].pos \in RunningPos \cup {"queued"} => i = idx
    /\ ExecutingStage1 /= {} =>
           /\ ExecutingStage1 = {idx}
           /\ ExecutingStage2 = {}
    /\ \A i \in Images : i > 1 => (i - 1) \in DOMAIN all_results
    /\ Len(all_results) \in {Len(stage1) - 1, Len(stage1)}

\* All three Stage 2 tasks of the second image execute at the same time.
C5_Witness ==
    /\ idx = 2
    /\ Cardinality(ExecutingStage2) = 3

\* C6: when main returns, the reported failed count is the number of images whose
\* Stage 1 raised, succeeded + failed is the number of images, and the exit status
\* is non-zero exactly when some image's Stage 1 raised, whatever the Stage 2 tasks
\* did.
C6_ExitStatusCountsStage1Only ==
    pc = "done" =>
        /\ summary.failed = Cardinality({i \in Images : Stage1Failed(i)})
        /\ summary.successful + summary.failed = Len(image_files)
        /\ summary.total = Len(image_files)
        /\ (exit_code.code /= 0) <=> (\E i \in Images : Stage1Failed(i))

\* One image lost all three Stage 2 domains and still counts as successful; the
\* other failed Stage 1, which alone makes the exit status 1.
C6_Witness ==
    /\ pc = "done"
    /\ Len(image_files) = 2
    /\ Stage1Succeeded(1)
    /\ \A t \in TaskNames : task[1][t].pos = "raised" /\ all_results[1][t] = None
    /\ Stage1Failed(2)
    /\ summary = [total |-> 2, successful |-> 1, failed |-> 1]
    /\ exit_code.code = 1


\* C18: no retries. For the image being processed, each of the four extractors has
\* been invoked at most once and each invocation has made at most one upstream
\* call, so the image has caused at most 4 upstream calls; when Stage 1 raised
\* after making its call the image has caused exactly 1.
C18_NoRetries ==
    LET total == calls["pooled_population"].upstream + calls["km_survival"].upstream
                 + calls["baseline"].upstream + calls["response_outcomes"].upstream
    IN  /\ \A e \in Extractors :
              /\ calls[e].started <= 1
              /\ calls[e].upstream <= calls[e].started
        /\ total <= 4
        /\ (/\ idx \in DOMAIN stage1
            /\ stage1[idx].state = "raised"
            /\ calls["pooled_population"].upstream = 1) => total = 1

\* The first image failed at its Stage 1 upstream call and the second image has
\* run all four extractors, each with its one call.
C18_Witness ==
    /\ idx = 2
    /\ stage1[1].state = "raised"
    /\ all_results[1].error = "upstream"
    /\ \A e \in Extractors : calls[e].started = 1 /\ calls[e].upstream = 1
    /\ \E t \in TaskNames : task[2][t].pos = "raised"

\* C19: during Stage 2 of an image, in every interleaving, a step that writes a
\* file writes one path, the path named after the image and the domain of the one
\* task taking the step (so no path is written by two tasks) and never the Stage 1
\* artifact; the artifact holds what Stage 1 wrote, and that is what a task reads.
C19_Stage2WritesDisjointArtifactReadOnly ==
    [][ (pc \in {"submit", "collect"}) =>
         (LET artifact == Validated("pooled_population", results.image_path, None)
              written == {p \in DOMAIN fs' : p \notin DOMAIN fs \/ fs'[p] /= fs[p]}
              stepped == {t \in TaskNames : task'[idx][t] /= task[idx][t]}
          IN  /\ stage1[idx].wrote \in DOMAIN fs
              /\ stage1[idx].wrote = pooled_json_path
              /\ fs[pooled_json_path] = artifact
              /\ fs'[pooled_json_path] = artifact
              /\ \A p \in written :
                    /\ p /= pooled_json_path
                    /\ written = {p}
                    /\ stepped = {fs'[p].domain}
                    /\ p.file = <<results.image_id, fs'[p].domain>>
              /\ \A t \in TaskNames :
                    task'[idx][t].input2 /= None => task'[idx][t].input2 = artifact)
      ]_vars

\* The three tasks of an image have read the artifact and written their three
\* files, which lie next to the untouched Stage 1 artifact.
C19_Witness ==
    /\ pc = "collect"
    /\ \A t \in TaskNames :
          /\ task[idx][t].pos = "returned"
          /\ task[idx][t].input2 = fs[pooled_json_path]
          /\ OutputJsonPath(results.image_id, t) \in DOMAIN fs
          /\ fs[OutputJsonPath(results.image_id, t)].domain = t
    /\ fs[pooled_json_path] = Validated("pooled_population", results.image_path, None)
    /\ Cardinality({OutputJsonPath(results.image_id, e) : e \in Extractors}) = 4

\* C20: when every call and file operation returns or raises, the run terminates
\* with one terminal entry per image, a domain-result map or a fatal record; and as
\* long as a Stage 2 task of an image has not returned or raised, that image has no
\* entry and no later image has been started.
C20_TerminatesUnlessTaskStuck ==
    /\ <>(/\ pc = "done"
          /\ Len(all_results) = Len(image_files)
          /\ \A i \in DOMAIN all_results :
                /\ all_results[i].image_id = PathStem(image_files[i])
                /\ \/ "error" \in DOMAIN all_results[i]
                   \/ TaskNames \subseteq DOMAIN all_results[i])
    /\ [](\A i \in DOMAIN task : \A t \in TaskNames :
            task[i][t].pos \in {"queued", "validated"} =>
                /\ pc \in {"submit", "collect"}
                /\ idx = i
                /\ Len(stage1) = i
                /\ Len(all_results) = i - 1)

\* The run of two images has ended: the first image got its domain-result map
\* after one of its tasks raised, the second the fatal record of its Stage 1.
C20_Witness ==
    /\ pc = "done"
    /\ Len(image_files) = 2
    /\ Len(all_results) = 2
    /\ "error" \notin DOMAIN all_results[1]
    /\ \E t \in TaskNames : task[1][t].pos = "raised" /\ all_results[1][t] = None
    /\ \E t \in TaskNames : task[1][t].pos = "returned" /\ all_results[1][t] /= None
    /\ "error" \in DOMAIN all_results[2]

\* C24: for every image that has its entry, an artifact written for that image
\* exists only where the extraction succeeded: a fatal entry has no
\* <image_id>_pooled_population.json, and a domain whose slot is null has no
\* <image_id>_<domain>.json.
C24_ArtifactOnlyOnSuccess ==
    \A i \in DOMAIN all_results :
        LET e == all_results[i]
            wrote(d) == /\ OutputJsonPath(e.image_id, d) \in DOMAIN fs
                        /\ fs[OutputJsonPath(e.image_id, d)].image_path = e.image_path
        IN  IF "error" \in DOMAIN e
            THEN ~wrote("pooled_population")
            ELSE \A t \in TaskNames : e[t] = None => ~wrote(t)

\* C25: the artifacts of distinct image files of one run are distinct files: the
\* Stage 1 artifact an image wrote, and each Stage 2 artifact a returned task of it
\* wrote, still holds what was extracted from that image, whatever images were
\* processed after it; and the artifact a Stage 2 task read came from its own image.
C25_ArtifactsPerImageFile ==
    /\ \A i \in DOMAIN stage1 :
          stage1[i].wrote /= None =>
              fs[stage1[i].wrote].image_path = ImagePath(image_files[i])
    /\ \A i \in DOMAIN task : \A t \in TaskNames :
          /\ task[i][t].pos = "returned" =>
                fs[OutputJsonPath(PathStem(image_files[i]), t)].image_path
                    = ImagePath(image_files[i])
          /\ task[i][t].input2 /= None =>
                task[i][t].input2.image_path = ImagePath(image_files[i])

\* C26: the fan-in does not depend on the order in which the tasks complete. At
\* every moment of the collection, and in the image's entry, the slot of a task is
\* a function of that task's own outcome alone: its validated output once the task
\* returned and was collected, null otherwise; no slot holds a sibling's output.
C26_FanInOrderIndependent ==
    /\ pc = "collect" =>
          \A t \in TaskNames :
              par[t] = IF t \in collected /\ task[idx][t].pos = "returned"
                       THEN Validated(t, results.image_path, task[idx][t].input2)
                       ELSE None
    /\ \A i \in DOMAIN all_results :
          "error" \notin DOMAIN all_results[i] =>
              \A t \in TaskNames :
                  /\ all_results[i][t] =
                        IF task[i][t].pos = "returned"
                        THEN Validated(t, ImagePath(image_files[i]), task[i][t].input2)
                        ELSE None
                  /\ all_results[i][t] /= None => all_results[i][t].domain = t

\* The task submitted last completed and was collected first, while the task
\* submitted first has not started; its output sits in its own slot.
C26_Witness ==
    /\ pc = "collect"
    /\ collected = {"response_outcomes"}
    /\ task[idx]["km_survival"].pos = "queued"
    /\ task[idx]["baseline"].pos = "raised"
    /\ par["response_outcomes"] /= None
    /\ par["response_outcomes"].domain = "response_outcomes"
    /\ par["km_survival"] = None

\* C27: the run result has one entry per enumerated image file, in enumeration
\* order: while the loop runs the entries are those of the images before the
\* current one (and of the current one once it is finished), each with the id and
\* path of its file; when the loop has ended every file has its entry, and every
\* file was processed, whatever images before it failed.
C27_OneEntryPerImageInOrder ==
    /\ Len(all_results) \in {n \in {idx - 1, idx} : n >= 0}
    /\ Len(all_results) <= Len(image_files)
    /\ \A i \in DOMAIN all_results :
          /\ all_results[i].image_id = PathStem(image_files[i])
          /\ all_results[i].image_path = ImagePath(image_files[i])
          /\ ("error" \in DOMAIN all_results[i]) <=> Stage1Failed(i)
    /\ pc \in {"summary", "done"} =>
          /\ Len(all_results) = Len(image_files)
          /\ Len(stage1) = Len(image_files)
    /\ pc = "done" => summary.total = Len(image_files)

\* The first of two images failed fatally; the second was processed and has its
\* domain-result map after it.
C27_Witness ==
    /\ pc = "done"
    /\ Len(image_files) = 2
    /\ PathStem(image_files[1]) /= PathStem(image_files[2])
    /\ "error" \in DOMAIN all_results[1]
    /\ "error" \notin DOMAIN all_results[2]
    /\ all_results[2].image_id = PathStem(image_files[2])
    /\ all_results[2].pooled_population /= None

-----------------------------------------------------------------------------
(* Specification NormSpec: one Stage 2 extract() from the parsed reply on *)

\* A key the model's reply leaves out.
Absent == [t |-> "absent"]

\* What the model may have put in the id field of a row: nothing, null, or an int.
IdProbes == {Absent, JNull, JInt(0 - 1), JInt(0), JInt(1), JInt(2)}

\* What it may have put in an enum field: nothing, null, each member of the closed
\* set, each member with blanks around it, a string or a number outside the set.
EnumProbes(lits) ==
    {Absent, JNull, Word("Weird"), JInt(5)}
    \cup (lits \ {JNull})
    \cup {JStr(<<" ">> \o l.v \o <<" ">>) : l \in lits \ {JNull}}

\* The row `base` with `key` holding the probe (left out for Absent).
WithProbe(base, key, probe) ==
    IF probe = Absent THEN KeepKeys(base, DOMAIN base \ {key}) ELSE Put(base, key, probe)

\* A well-formed row of each domain.
GoodRow(dom) ==
    Put(Put(EmptyDict, IdKey(dom), JInt(1)), "population_type", Word("Overall"))

\* The second enum field of each domain's rows.
SecondEnum(dom) ==
    CASE dom = "baseline" -> [key |-> "baseline_parent", lits |-> BaselineParent]
      [] dom = "km_survival" -> [key |-> "time_unit", lits |-> TimeUnit]
      [] dom = "response_outcomes" ->
            [key |-> "response_metric_class", lits |-> ResponseMetricClass]

\* Rows that exercise the numeric fields and the allow-list of each domain.
OtherRows(dom) ==
    {JObj(Put(GoodRow(dom), "invented_key", Word("x")))}
    \cup CASE dom = "baseline" ->
                {JObj(Put(GoodRow(dom), "population_n", JStr(<<"4", "2", " ", "patients">>))),
                 JObj(Put(GoodRow(dom), "population_percentage",
                          JStr(<<"1", "2", ".", "5", "0", "%">>))),
                 JObj(Put(GoodRow(dom), "population_percentage", JInt(101))),
                 JObj(Put(GoodRow(dom), "population_n", JNonFinite("nan")))}
           [] dom = "km_survival" ->
                {JObj(Put(GoodRow(dom), "arm_n", JInt(0 - 1))),
                 JObj(Put(GoodRow(dom), "p_value", JFloat(FALSE, 0, <<"0", "5">>))),
                 JObj(Put(GoodRow(dom), "p_value", JInt(1))),
                 JObj(Put(GoodRow(dom), "p_value", JInt(2)))}
           [] dom = "response_outcomes" ->
                {JObj(Put(GoodRow(dom), "result",
                          JObj(WithProbe(Put(EmptyDict, "n", JInt(3)), "duration_unit", u))))
                    : u \in {Absent, Word("months"), Word("Weird")}}
                \cup {JObj(Put(GoodRow(dom), "result", JObj(r)))
                        : r \in {Put(EmptyDict, "n", JInt(0 - 1)),
                                 Put(EmptyDict, "percentage", JInt(150)),
                                 Put(Put(EmptyDict, "n", JInt(3)), "invented_key", Word("x"))}}

\* The elements the model's reply may hold in a row list: mappings with every id
\* probe; one with neither an id nor a valid population_type; mappings with every probe of
\* the two enum fields; the rows of OtherRows; and elements that are no mapping.
RowProbes(dom) ==
    {JObj(WithProbe(WithProbe(GoodRow(dom), IdKey(dom), id), "population_type", pt))
        : id \in IdProbes, pt \in {Word("Overall")}}
    \cup {JObj(WithProbe(WithProbe(GoodRow(dom), IdKey(dom), Absent), "population_type",
                         Word("Weird")))}
    \cup {JObj(WithProbe(GoodRow(dom), "population_type", pt)) : pt \in EnumProbes(PopulationType)}
    \cup {JObj(WithProbe(GoodRow(dom), SecondEnum(dom).key, e))
            : e \in EnumProbes(SecondEnum(dom).lits)}
    \cup OtherRows(dom)
    \cup {JNull, Word("row"), JInt(7), JList(<<JInt(1)>>)}

\* Lists of at most MaxRows such elements.
RowLists(dom) ==
    UNION {[1..n -> RowProbes(dom)] : n \in 0..MaxRows}

\* `parsed`: an object with the row list, and the shapes without one.
ParsedInputs(dom) ==
    {Put(EmptyDict, RowsKey(dom), JList(l)) : l \in RowLists(dom)}
    \cup {EmptyDict,
          Put(EmptyDict, RowsKey(dom), JNull),
          Put(EmptyDict, RowsKey(dom), Word("none")),
          Put(EmptyDict, "trial_metadata", JNull),
          Put(EmptyDict, "trial_metadata",
              JObj(Put(Put(EmptyDict, "phase", Word("III")), "sponsor", Word("x")))),
          Put(EmptyDict, "trial_metadata", JObj(Put(EmptyDict, "phase", JInt(3)))),
          Put(EmptyDict, RowsKey(dom), JInt(7)),
          Put(EmptyDict, RowsKey(dom), JObj(GoodRow(dom))),
          Put(EmptyDict, "trial_metadata", JInt(0)),
          Put(EmptyDict, "trial_metadata", JInt(5)),
          Put(EmptyDict, "trial_metadata", Word("IIb")),
          Put(EmptyDict, "trial_metadata", Word("phase")),
          Put(EmptyDict, "trial_metadata", JList(<<JInt(1)>>)),
          Put(EmptyDict, "trial_metadata", JList(<<Word("phase")>>)),
          Put(Put(Put(EmptyDict, RowsKey(dom),
                      JList(<<JObj(Put(GoodRow(dom), "invented_key", Word("x")))>>)),
                  "trial_metadata",
                  JObj(Put(Put(EmptyDict, "phase", Word("III")), "sponsor", Word("x")))),
              "notes", Word("x"))}

NormInit ==
    /\ image_files = <<>>
    /\ pc = "start"
    /\ idx = 0
    /\ results = None
    /\ pooled_json_path = None
    /\ par = [t \in TaskNames |-> None]
    /\ collected = {}
    /\ nsub = 0
    /\ stage1 = <<>>
    /\ task = <<>>
    /\ all_results = <<>>
    /\ summary = None
    /\ exit_code = None
    /\ fs = [p \in {} |-> None]
    /\ calls = [e \in Extractors |-> [started |-> 0, upstream |-> 0]]
    /\ n_pc = "parsed"
    /\ n_dom \in TaskNames
    /\ n_parsed \in ParsedInputs(n_dom)
    /\ n_filtered = None
    /\ n_validated = None
    /\ f_pc = "idle"
    /\ f_fn = None
    /\ f_in = None
    /\ f_out = None

\* filtered = self._clean_to_..._only(parsed), or the exception the normalizer
\* raised, which leaves extract().
N_Clean ==
    /\ n_pc = "parsed"
    /\ n_filtered' = Normalize(n_dom, n_parsed)
    /\ n_pc' = IF "t" \in DOMAIN n_filtered' THEN "failed" ELSE "filtered"
    /\ n_parsed' = ParsedAfterClean(n_dom, n_parsed)
    /\ UNCHANGED <<orch_vars, fn_vars, n_dom, n_validated>>

\* validated = ...Output.model_validate(filtered): the model, or ValidationError
\* raised out of extract().
N_Validate ==
    /\ n_pc = "filtered"
    /\ n_validated' = model_validate(n_dom, n_filtered)
    /\ n_pc' = IF n_validated'.ok THEN "validated" ELSE "raised"
    /\ UNCHANGED <<orch_vars, fn_vars, n_dom, n_parsed, n_filtered>>

NormNext ==
    \/ N_Clean
    \/ N_Validate

NormSpec == NormInit /\ [][NormNext]_vars

-----------------------------------------------------------------------------
(* Properties of the normalizers (specification NormSpec) *)

Normalized == n_pc \in {"filtered", "validated", "raised"}

\* The mappings of the parsed row list, in the order the normalizer keeps them.
InputRows ==
    LET raw == Get(n_parsed, RowsKey(n_dom))
    IN  IF raw.t = "list" THEN DictRows(raw.v) ELSE <<>>

\* The row list of `filtered`.
OutputRows == n_filtered[RowsKey(n_dom)].v

IdIn(i) == Get(InputRows[i].v, IdKey(n_dom))
IdOut(i) == Get(OutputRows[i].v, IdKey(n_dom))
IdMissing(i) == IdKey(n_dom) \notin DOMAIN InputRows[i].v

\* What the specification prescribes for an enum field of a row: the trimmed value
\* when it is a string in the closed set, the fallback otherwise.
Prescribed(v, lits, fallback) ==
    IF v.t = "str" /\ JStr(Strip(v.v)) \in lits THEN JStr(Strip(v.v)) ELSE fallback

\* C7: in every domain, after normalization each row whose id was missing or <= 0
\* has the id of its 1-based position among the rows kept, and each row whose id
\* was a positive integer keeps it.
C7_IdBackfillEveryDomain ==
    Normalized =>
        /\ Len(OutputRows) = Len(InputRows)
        /\ \A i \in DOMAIN InputRows :
              /\ (IdMissing(i) \/ (IdIn(i).t = "int" /\ IdIn(i).v <= 0))
                    => IdOut(i) = JInt(i)
              /\ (IdIn(i).t = "int" /\ IdIn(i).v > 0) => IdOut(i) = IdIn(i)

\* C8: after normalization the sequential ids of a row list are pairwise distinct
\* positive integers; stated for baseline_id in bc_types, where rows that carry a
\* valid id meet rows that are backfilled by position.
C8_BaselineIdsDistinctPositive ==
    (Normalized /\ n_dom = "baseline") =>
        /\ \A i \in DOMAIN OutputRows : IdOut(i).t = "int" /\ IdOut(i).v > 0
        /\ \A i, j \in DOMAIN OutputRows : i /= j => IdOut(i) /= IdOut(j)

\* C9: an enum field holding a value outside its closed set is replaced by the
\* fallback before validation, so validation never reports an enum (literal) error.
C9_EnumNeverFailsValidation ==
    n_pc = "raised" =>
        \A e \in n_validated.errors : e[3] /= "literal_error"

\* C10: a baseline row's population_type is kept (trimmed) when it is a string in
\* the schema's PopulationType and is "Other" otherwise; its baseline_parent is kept
\* (trimmed) when it is a string in BaselineParent and is null otherwise.
C10_BaselineEnumsFollowSchema ==
    (Normalized /\ n_dom = "baseline") =>
        \A i \in DOMAIN InputRows :
            /\ Get(OutputRows[i].v, "population_type")
                 = Prescribed(Get(InputRows[i].v, "population_type"),
                              PopulationType, Word("Other"))
            /\ Get(OutputRows[i].v, "baseline_parent")
                 = Prescribed(Get(InputRows[i].v, "baseline_parent"),
                              BaselineParent \ {JNull}, JNull)

\* C11: the normalized output of every Stage 2 domain has only the domain's
\* declared top-level keys, its trial_metadata only trial_id, phase and study_name,
\* and each of its rows only fields the domain's row schema declares.
C11_OnlyAllowedKeys ==
    Normalized =>
        /\ DOMAIN n_filtered \subseteq TopKeys(n_dom)
        /\ "trial_metadata" \in DOMAIN n_filtered =>
              DOMAIN n_filtered["trial_metadata"].v \subseteq DOMAIN TrialMetadataSchema
        /\ \A i \in DOMAIN OutputRows :
              DOMAIN OutputRows[i].v \subseteq DOMAIN RowSchema(n_dom)

\* C11 witness: a reply with an unknown key at the top level, in trial_metadata and
\* in a row has been normalized.
C11_Witness ==
    /\ Normalized
    /\ n_dom = "km_survival"
    /\ "notes" \in DOMAIN n_parsed
    /\ "sponsor" \in DOMAIN n_parsed["trial_metadata"].v
    /\ Len(InputRows) = 1
    /\ "invented_key" \in DOMAIN InputRows[1].v
    /\ DOMAIN OutputRows[1].v = {"survival_outcome_id", "population_type"}

\* C12: unknown keys never reach the validator: whenever the reply without its
\* unknown keys (at the top level, in trial_metadata, in a row, in a row's result)
\* validates, the reply itself validates and yields the same record.
C12_UnknownKeysNeverReachValidator ==
    n_pc \in {"validated", "raised"} =>
        LET KnownResult(r) ==
                IF "result" \in DOMAIN r /\ r["result"].t = "obj"
                THEN Put(r, "result", JObj(KeepKeys(r["result"].v, DOMAIN ResultObjectSchema)))
                ELSE r
            KnownRow(x) ==
                IF x.t = "obj"
                THEN JObj(KnownResult(KeepKeys(x.v, DOMAIN RowSchema(n_dom))))
                ELSE x
            KnownTop(k) ==
                LET x == n_parsed[k]
                IN  CASE k = RowsKey(n_dom) /\ x.t = "list" ->
                            JList([i \in DOMAIN x.v |-> KnownRow(x.v[i])])
                      [] k = "trial_metadata" /\ x.t = "obj" ->
                            JObj(KeepKeys(x.v, DOMAIN TrialMetadataSchema))
                      [] OTHER -> x
            known == [k \in DOMAIN n_parsed \cap TopKeys(n_dom) |-> KnownTop(k)]
            base == model_validate(n_dom, Normalize(n_dom, known))
        IN  base.ok => (n_validated.ok /\ n_validated.value = base.value)

\* C13: every record the validator accepts, at every nesting level, has ids >= 1,
\* counts (arm_n, events_n, assessment_denominator_n, population_n, result.n) >= 0,
\* every p_value in [0,1] and every percentage in [0,100].
C13_AcceptedRecordsInRange ==
    n_pc = "validated" =>
        LET InRange(chk, v) == v.t = "null" \/ PassesCheck(chk, v)
            FieldsInRange(r) ==
                \A k \in DOMAIN r :
                    /\ k = IdKey(n_dom) => (r[k].t = "int" /\ r[k].v >= 1)
                    /\ k \in {"arm_n", "events_n", "assessment_denominator_n",
                              "population_n", "n"} => InRange("non_negative", r[k])
                    /\ k = "p_value" => InRange("zero_to_one", r[k])
                    /\ k \in {"population_percentage", "percentage"} =>
                          InRange("zero_to_hundred", r[k])
        IN  \A i \in DOMAIN n_validated.value.rows :
                LET row == n_validated.value.rows[i]
                IN  /\ FieldsInRange(row)
                    /\ ("result" \in DOMAIN row /\ row["result"].t = "obj")
                          => FieldsInRange(row["result"].v)

\* C17: serializing the validated record gives back the normalized object: the
\* same fields with the same values, row by row.
C17_ValidateSerializeRoundTrip ==
    n_pc = "validated" =>
        model_dump_json(n_dom, n_validated.value)[RowsKey(n_dom)] = n_filtered[RowsKey(n_dom)]

\* C14: a validation error lists every violated field of the normalized object, not
\* only the first, and the error that leaves the extractor carries the image id and
\* the domain.
C14_ErrorListsEveryFieldWithContext ==
    n_pc = "raised" =>
        /\ \A i \in DOMAIN OutputRows :
              LET row == OutputRows[i].v
                  schema == RowSchema(n_dom)
              IN  /\ \A k \in DOMAIN row \cap DOMAIN schema :
                        (schema[k].ty /= "model" /\ ValidateScalar(schema[k], row[k]).errs /= {})
                            => \E e \in n_validated.errors : e[1] = i /\ e[2] = k
                  /\ \A k \in DOMAIN schema \ DOMAIN row :
                        schema[k].req => <<i, k, "missing">> \in n_validated.errors
        /\ {"image_id", "domain"} \subseteq DOMAIN n_validated

\* C22: in each domain, elements of the row list that are no mapping are dropped
\* and change nothing else: the normalizer's outcome is its outcome on the list of
\* the mapping elements alone (the empty list when the value is no list), and what
\* it returns has one row per mapping element, in their order, each row built from
\* its own element.
C22_NonMappingRowsDropped ==
    n_pc \in {"filtered", "failed", "validated", "raised"} =>
        LET raw == Get(n_parsed, RowsKey(n_dom))
            maps == IF raw.t = "list" THEN SelectSeq(raw.v, LAMBDA r : r.t = "obj") ELSE <<>>
            id(i) == Get(maps[i].v, IdKey(n_dom))
        IN  /\ n_filtered = Normalize(n_dom, Put(n_parsed, RowsKey(n_dom), JList(maps)))
            /\ n_pc /= "failed" =>
                  /\ Len(OutputRows) = Len(maps)
                  /\ \A i \in DOMAIN maps :
                        /\ OutputRows[i].t = "obj"
                        /\ (id(i).t = "int" /\ id(i).v > 0) => IdOut(i) = id(i)
                        /\ \A k \in DOMAIN maps[i].v \cap DOMAIN OutputRows[i].v :
                              k \notin {"population_type", "baseline_parent", "population_n",
                                        "population_percentage", IdKey(n_dom)}
                                 => OutputRows[i].v[k] = maps[i].v[k]
                        /\ DOMAIN OutputRows[i].v \cap DOMAIN maps[i].v
                              = DOMAIN maps[i].v \cap
                                   (CASE n_dom = "baseline" -> ALLOWED_BC_KEYS
                                      [] n_dom = "km_survival" -> ALLOWED_SURVIVAL_KEYS
                                      [] n_dom = "response_outcomes" -> ALLOWED_RESPONSE_KEYS)

\* C22 witness: a list of a number and a mapping became the one row of the mapping,
\* which kept its id 2.
C22_Witness ==
    /\ n_pc = "filtered"
    /\ Get(n_parsed, RowsKey(n_dom)).t = "list"
    /\ Len(Get(n_parsed, RowsKey(n_dom)).v) = 2
    /\ Get(n_parsed, RowsKey(n_dom)).v[1] = JInt(7)
    /\ Get(n_parsed, RowsKey(n_dom)).v[2].t = "obj"
    /\ Len(OutputRows) = 1
    /\ IdOut(1) = JInt(2)

\* C23: normalizer totality. Whatever JSON value sits under the keys of the parsed
\* object, the domain's normalizer returns a normalized object and never raises.
C23_NormalizerTotal ==
    n_pc /= "failed"

\* C28: the baseline normalizer does not change its argument, and applying it to
\* the object it returned gives that object again.
C28_BaselineNormalizerIdempotentPure ==
    [][ (n_pc = "parsed" /\ n_dom = "baseline") =>
            /\ n_parsed' = n_parsed
            /\ n_pc' = "filtered" => _clean_to_bc_only(n_filtered') = n_filtered'
      ]_vars

\* C28 witness: a row whose count was a text and whose population_type was padded
\* was normalized; a second pass leaves the result as it is.
C28_Witness ==
    /\ n_pc = "filtered"
    /\ n_dom = "baseline"
    /\ Get(n_parsed, "bc_types").t = "list"
    /\ \E i \in DOMAIN Get(n_parsed, "bc_types").v :
          /\ Get(n_parsed, "bc_types").v[i].t = "obj"
          /\ Get(Get(n_parsed, "bc_types").v[i].v, "population_n").t = "str"
    /\ \E i \in DOMAIN OutputRows : Get(OutputRows[i].v, "population_n") = JInt(42)
    /\ n_filtered /= n_parsed
    /\ _clean_to_bc_only(n_filtered) = n_filtered

-----------------------------------------------------------------------------
(* Specification FnSpec: one call of a utility function of utils.py *)

\* The texts of at most MaxText tokens, and no text at all.
Texts ==
    {JNull} \cup {JStr(s) : s \in UNION {[1..n -> {"{", "}", "kv", "x", " ", "FENCE", "json"}]
                                            : n \in 0..MaxText}}

\* The values a numeric field of the reply may hold.
NumericInputs ==
    {JNull, JList(<<>>), JObj(EmptyDict), JNonFinite("nan"), JNonFinite("inf")}
    \cup {JInt(n) : n \in (0 - 2)..2}
    \cup {JFloat(neg, i, f) : neg \in BOOLEAN, i \in 0..2, f \in {<<"5">>, <<"9", "9">>}}
    \cup {JFloat(FALSE, i, <<>>) : i \in 0..2}
    \cup {JStr(s) : s \in UNION {[1..n -> {"-", "0", "7", "a", " ", "."}] : n \in 0..MaxText}}

FnInit ==
    /\ image_files = <<>>
    /\ pc = "start"
    /\ idx = 0
    /\ results = None
    /\ pooled_json_path = None
    /\ par = [t \in TaskNames |-> None]
    /\ collected = {}
    /\ nsub = 0
    /\ stage1 = <<>>
    /\ task = <<>>
    /\ all_results = <<>>
    /\ summary = None
    /\ exit_code = None
    /\ fs = [p \in {} |-> None]
    /\ calls = [e \in Extractors |-> [started |-> 0, upstream |-> 0]]
    /\ n_pc = "idle"
    /\ n_dom = None
    /\ n_parsed = None
    /\ n_filtered = None
    /\ n_validated = None
    /\ f_pc = "ready"
    /\ f_fn \in {"extract_first_json_object", "safe_json_text", "to_int_or_none"}
    /\ f_in \in IF f_fn = "to_int_or_none" THEN NumericInputs ELSE Texts
    /\ f_out = None

F_extract_first_json_object ==
    /\ f_pc = "ready"
    /\ f_fn = "extract_first_json_object"
    /\ f_out' = extract_first_json_object(f_in)
    /\ f_pc' = "done"
    /\ UNCHANGED <<orch_vars, norm_vars, f_fn, f_in>>

F_safe_json_text ==
    /\ f_pc = "ready"
    /\ f_fn = "safe_json_text"
    /\ f_out' = safe_json_text(f_in)
    /\ f_pc' = "done"
    /\ UNCHANGED <<orch_vars, norm_vars, f_fn, f_in>>

F_to_int_or_none ==
    /\ f_pc = "ready"
    /\ f_fn = "to_int_or_none"
    /\ f_out' = to_int_or_none(f_in)
    /\ f_pc' = "done"
    /\ UNCHANGED <<orch_vars, norm_vars, f_fn, f_in>>

FnNext ==
    \/ F_extract_first_json_object
    \/ F_safe_json_text
    \/ F_to_int_or_none

FnSpec == FnInit /\ [][FnNext]_vars

-----------------------------------------------------------------------------
(* Properties of the utility functions (specification FnSpec) *)

\* C15: extract_first_json_object fails with EmptyOutput iff the text is blank,
\* with NoJsonFound iff the non-blank text has no "{" with a later "}", with
\* MalformedJson iff the span from the first "{" to the last "}" does not parse, and
\* returns the parsed object otherwise; safe_json_text fails with NotJson iff the
\* trimmed text does not both start with "{" and end with "}", with no search.
C15_SanitizerOutcomes ==
    (f_pc = "done" /\ f_fn \in {"extract_first_json_object", "safe_json_text"}) =>
        LET s == IF f_in.t = "null" THEN <<>> ELSE f_in.v
            blank == \A i \in DOMAIN s : s[i] = " "
            pair == \E i, j \in DOMAIN s : i < j /\ s[i] = "{" /\ s[j] = "}"
            first == CHOOSE i \in DOMAIN s : s[i] = "{" /\ \A k \in 1..(i - 1) : s[k] /= "{"
            last == CHOOSE j \in DOMAIN s : s[j] = "}" /\ \A k \in (j + 1)..Len(s) : s[k] /= "}"
            span == SubSeq(s, first, last)
            starts == \E i \in DOMAIN s : s[i] = "{" /\ \A k \in 1..(i - 1) : s[k] = " "
            ends == \E j \in DOMAIN s : s[j] = "}" /\ \A k \in (j + 1)..Len(s) : s[k] = " "
        IN  IF f_fn = "extract_first_json_object"
            THEN /\ (f_out.t = "raise" /\ f_out.type = "ValueError"
                        /\ f_out.msg = "Empty model output text.") <=> blank
                 /\ (f_out.t = "raise" /\ f_out.type = "ValueError"
                        /\ f_out.msg = "No JSON object found in model output.")
                       <=> (~blank /\ ~pair)
                 /\ (f_out.t = "raise" /\ f_out.type = "JSONDecodeError")
                       <=> (pair /\ json_loads(span).t = "raise")
                 /\ f_out.t /= "raise" => f_out = json_loads(span)
            ELSE /\ (f_out.t = "raise" /\ f_out.type = "RuntimeError") <=> ~(starts /\ ends)
                 /\ f_out.t /= "raise" => f_out = JStr(Strip(s))

\* C15 witness: a fenced reply with prose before the object went through the
\* tolerant sanitizer, which found the object.
C15_Witness ==
    /\ f_pc = "done"
    /\ f_fn = "extract_first_json_object"
    /\ f_in = JStr(<<"FENCE", "x", "{", "}">>)
    /\ f_out = JObj(EmptyDict)

\* C21: for a text with a "{" and a later "}" that is not one complete {...} span
\* once its fences are removed, the span the tolerant sanitizer hands to the parser
\* runs from the first "{" to the last "}" of the text, and the outcome is the
\* parser's outcome on that span; whatever the text, a value the sanitizer returns
\* is an object.
C21_SpanFirstToLastBrace ==
    (f_pc = "done" /\ f_fn = "extract_first_json_object") =>
        LET s == IF f_in.t = "null" THEN <<>> ELSE f_in.v
            text == remove_fences(Strip(s))
            complete == text /= <<>> /\ text[1] = "{" /\ text[Len(text)] = "}"
            pair == \E i, j \in DOMAIN text : i < j /\ text[i] = "{" /\ text[j] = "}"
            first == CHOOSE i \in DOMAIN text :
                        text[i] = "{" /\ \A k \in 1..(i - 1) : text[k] /= "{"
            last == CHOOSE j \in DOMAIN text :
                        text[j] = "}" /\ \A k \in (j + 1)..Len(text) : text[k] /= "}"
        IN  /\ (pair /\ ~complete) =>
                  /\ re_search_braces(text) = [group0 |-> SubSeq(text, first, last)]
                  /\ f_out = json_loads(SubSeq(text, first, last))
            /\ f_out.t /= "raise" => f_out.t = "obj"

\* C21 witness: prose, then an object with a member; the span was cut out and parsed.
C21_Witness ==
    /\ f_pc = "done"
    /\ f_fn = "extract_first_json_object"
    /\ f_in = JStr(<<"x", "{", "kv", "}">>)
    /\ re_search_braces(remove_fences(Strip(f_in.v))) = [group0 |-> <<"{", "kv", "}">>]
    /\ f_out = JObj(Put(EmptyDict, "k", JInt(1)))

\* C16: to_int_or_none is total and follows the reference rule: null gives null, an
\* integer itself, a float its truncation toward zero, a string the value of its
\* first maximal token of an optional "-" and digits (null without a digit), any
\* other type null.
C16_IntCoercionTotal ==
    (f_pc = "done" /\ f_fn = "to_int_or_none") =>
        LET s == Strip(f_in.v)
            digits == {i \in DOMAIN s : IsDigit(s[i])}
            d == Min(digits)
            neg == d > 1 /\ s[d - 1] = "-"
            n == DigitsValue(SubSeq(s, d, DigitsEnd(s, d)))
        IN  /\ f_out.t /= "raise"
            /\ CASE f_in.t = "null" -> f_out = JNull
                 [] f_in.t = "int" -> f_out = f_in
                 [] f_in.t = "float" ->
                        f_out = JInt(IF f_in.neg THEN 0 - f_in.int ELSE f_in.int)
                 [] f_in.t = "nonfinite" -> f_out.t \in {"int", "null"}
                 [] f_in.t = "str" ->
                        f_out = IF digits = {} THEN JNull ELSE JInt(IF neg THEN 0 - n ELSE n)
                 [] OTHER -> f_out = JNull

=============================================================================
